---- MODULE Spec2Model ----
(***************************************************************************)
(* Model of src/services.py of the openfga operator: WorkloadService (the  *)
(* status reporter: version, is_running) and PebbleService (the layer      *)
(* reconciler: plan, render_pebble_layer).                                 *)
(*                                                                         *)
(* The Pebble container (the supervisor), the unit's workload-version      *)
(* ledger and the command-line helper are external: each of their calls    *)
(* either succeeds or raises, chosen nondeterministically.                 *)
(***************************************************************************)
EXTENDS Naturals, Sequences, FiniteSets

VARIABLES
    svc,                \* the supervisor's run state of WORKLOAD_SERVICE
    _version,           \* WorkloadService._version
    ledger,             \* the workload version the unit last accepted
    PEBBLE_LAYER_DICT,  \* the module-level layer dictionary
    DEFAULT_CONTAINER_ENV, \* env_vars.DEFAULT_CONTAINER_ENV, fixed at import
    call,               \* the last completed call: arguments, supervisor calls, outcome
    history,            \* the render calls completed so far, in order, by instance
    threads             \* the render calls in progress, one per calling thread

vars == <<svc, _version, ledger, PEBBLE_LAYER_DICT, DEFAULT_CONTAINER_ENV, call,
          history, threads>>

(***************************************************************************)
(* Bounds                                                                  *)
(***************************************************************************)
\* Longest list of environment sources handed to render_pebble_layer.
MaxSources == 2

\* Most render calls in a recorded sequence of calls.
MaxCalls == 3

(***************************************************************************)
(* Values                                                                  *)
(***************************************************************************)
Range(s) == {s[i] : i \in DOMAIN s}

\* The run state of the workload service is "absent" (the supervisor does not
\* know it), "stopped" or "running".

\* Version strings the helper reports or a caller assigns.
Versions == {"1.2.3", "1.3.0"}

\* Exceptions, by kind.  NoError: the call returned normally.
NoError == "none"
ModelError == "ModelError"                  \* get_service: service not found
PebbleError == "pebble.Error"               \* any failure of a supervisor call
LedgerError == "Exception"                  \* set_workload_version failed
PebbleServiceError == "PebbleServiceError"
TypeError == "TypeError"                    \* the call does not match the signature

\* The calls a PebbleService or WorkloadService makes on the container.
AddLayerCall == "add_layer(WORKLOAD_SERVICE, layer, combine=True)"
GetServiceCall == "get_service(WORKLOAD_SERVICE)"
StartCall == "start(WORKLOAD_SERVICE)"
RestartCall == "restart(WORKLOAD_SERVICE)"
ReplanCall == "replan()"
Transitions == {StartCall, RestartCall, ReplanCall}

\* A Layer handed to plan, as far as the supervisor's service set goes:
\* whether it defines WORKLOAD_SERVICE.
Layers == {[has_service |-> TRUE], [has_service |-> FALSE]}

\* An Optional[str]: <<>> is None, <<s>> is the string s.
HelperAnswers == {<<>>} \cup {<<v>> : v \in Versions \cup {""}}

(***************************************************************************)
(* The supervisor (ops.Container), as the code uses it                     *)
(***************************************************************************)
\* add_layer with combine=True merges the layer into the plan: a service the
\* layer defines is known to the supervisor afterwards.
add_layer(s, layer) ==
    IF layer.has_service /\ s = "absent" THEN "stopped" ELSE s

\* ServiceInfo.is_running() of a service the supervisor knows.
ServiceInfo_is_running(s) == s = "running"

(***************************************************************************)
(* WorkloadService                                                         *)
(***************************************************************************)
\* str(x) in place of `x or ""`: None becomes the text "None".
OrEmpty_str(answer) ==
    IF answer = <<>> THEN "None" ELSE answer[1]

\* `x or ""` of the version getter.
OrEmpty(answer) ==
    IF answer = <<>> THEN "" ELSE IF answer[1] = "" THEN "" ELSE answer[1]

\* The version getter.
version_getter(answer) ==
    [_version |-> OrEmpty(answer), ret |-> OrEmpty(answer)]

\* A setter that lets the ledger's exception reach the caller.
version_setter_propagates(version, cur, cur_ledger, publish_ok) ==
    IF version = ""
    THEN [_version |-> cur, ledger |-> cur_ledger, ledger_log |-> <<>>,
          raised |-> NoError]
    ELSE IF ~publish_ok
    THEN [_version |-> cur, ledger |-> cur_ledger, ledger_log |-> <<LedgerError>>,
          raised |-> LedgerError]
    ELSE [_version |-> version, ledger |-> version, ledger_log |-> <<NoError>>,
          raised |-> NoError]

\* A setter that records the version even when set_workload_version raised.
version_setter_always_records(version, cur, cur_ledger, publish_ok) ==
    IF version = ""
    THEN [_version |-> cur, ledger |-> cur_ledger, ledger_log |-> <<>>,
          raised |-> NoError]
    ELSE IF ~publish_ok
    THEN [_version |-> version, ledger |-> cur_ledger, ledger_log |-> <<LedgerError>>,
          raised |-> NoError]
    ELSE [_version |-> version, ledger |-> version, ledger_log |-> <<NoError>>,
          raised |-> NoError]

\* A setter without the guard against the empty version.
version_setter_unguarded(version, cur, cur_ledger, publish_ok) ==
    IF ~publish_ok
    THEN [_version |-> cur, ledger |-> cur_ledger, ledger_log |-> <<LedgerError>>,
          raised |-> NoError]
    ELSE [_version |-> version, ledger |-> version, ledger_log |-> <<NoError>>,
          raised |-> NoError]

\* The version setter.  cur, cur_ledger: self._version and the ledger at entry;
\* publish_ok: whether set_workload_version returns.  ledger_log: the outcome
\* of each set_workload_version call made.
version_setter(version, cur, cur_ledger, publish_ok) ==
    IF version = ""
    THEN [_version |-> cur, ledger |-> cur_ledger, ledger_log |-> <<>>,
          raised |-> NoError]
    ELSE IF ~publish_ok
    THEN [_version |-> cur, ledger |-> cur_ledger, ledger_log |-> <<LedgerError>>,
          raised |-> NoError]
    ELSE [_version |-> version, ledger |-> version, ledger_log |-> <<NoError>>,
          raised |-> NoError]

\* is_running without the try: ModelError reaches the caller.
is_running_unguarded(s) ==
    IF s = "absent"
    THEN [ret |-> FALSE, raised |-> ModelError, issued |-> <<GetServiceCall>>, svc |-> s]
    ELSE [ret |-> ServiceInfo_is_running(s), raised |-> NoError,
          issued |-> <<GetServiceCall>>, svc |-> s]

\* The is_running property.  s: the supervisor's run state of the service.
is_running(s) ==
    IF s = "absent"
    THEN [ret |-> FALSE, raised |-> NoError, issued |-> <<GetServiceCall>>, svc |-> s]
    ELSE [ret |-> ServiceInfo_is_running(s), raised |-> NoError,
          issued |-> <<GetServiceCall>>, svc |-> s]

(***************************************************************************)
(* PebbleService: plan                                                     *)
(***************************************************************************)
\* What a container call that changes the run state leaves behind: "running"
\* after a start or restart that succeeded, the state as it was otherwise.
\* A start or restart of a service the supervisor does not know never succeeds.
Outcome(issued, fn, s, ok, after) ==
    IF ok /\ s # "absent"
    THEN [issued |-> issued, failed |-> "", sup_error |-> NoError, svc |-> after]
    ELSE [issued |-> issued, failed |-> fn, sup_error |-> PebbleError, svc |-> s]

\* _restart_service that takes a service the supervisor does not know for a
\* stopped one.
_restart_service_absent_starts(restart, s, ok) ==
    IF restart
    THEN Outcome(<<RestartCall>>, RestartCall, s, ok, "running")
    ELSE IF ~ServiceInfo_is_running(s)
    THEN Outcome(<<GetServiceCall, StartCall>>, StartCall, s, ok, "running")
    ELSE Outcome(<<GetServiceCall, ReplanCall>>, ReplanCall, s, ok, s)

\* _restart_service with the start and replan branches exchanged.
_restart_service_swapped(restart, s, ok) ==
    IF restart
    THEN Outcome(<<RestartCall>>, RestartCall, s, ok, "running")
    ELSE IF s = "absent"
    THEN [issued |-> <<GetServiceCall>>, failed |-> GetServiceCall,
          sup_error |-> ModelError, svc |-> s]
    ELSE IF ServiceInfo_is_running(s)
    THEN Outcome(<<GetServiceCall, StartCall>>, StartCall, s, ok, "running")
    ELSE Outcome(<<GetServiceCall, ReplanCall>>, ReplanCall, s, ok, s)

\* _restart_service(restart).  s: the supervisor's run state at entry; ok:
\* whether the transition the supervisor is asked for succeeds.  issued: the
\* container calls made, in order; failed: the call that raised ("" if none);
\* sup_error: the exception leaving the method.
_restart_service(restart, s, ok) ==
    IF restart
    THEN Outcome(<<RestartCall>>, RestartCall, s, ok, "running")
    ELSE IF s = "absent"
    THEN [issued |-> <<GetServiceCall>>, failed |-> GetServiceCall,
          sup_error |-> ModelError, svc |-> s]
    ELSE IF ~ServiceInfo_is_running(s)
    THEN Outcome(<<GetServiceCall, StartCall>>, StartCall, s, ok, "running")
    ELSE Outcome(<<GetServiceCall, ReplanCall>>, ReplanCall, s, ok, s)

\* plan that asks for the transition before it submits the layer.
plan_transition_first(layer, s, add_ok, ok) ==
    LET r == _restart_service(FALSE, s, ok)
    IN  IF r.sup_error # NoError
        THEN [issued |-> r.issued, failed |-> r.failed, sup_error |-> r.sup_error,
              raised |-> PebbleServiceError, sel_svc |-> s, svc |-> r.svc]
        ELSE IF ~add_ok
        THEN [issued |-> r.issued \o <<AddLayerCall>>, failed |-> AddLayerCall,
              sup_error |-> PebbleError, raised |-> PebbleError,
              sel_svc |-> s, svc |-> r.svc]
        ELSE [issued |-> r.issued \o <<AddLayerCall>>, failed |-> "",
              sup_error |-> NoError, raised |-> NoError,
              sel_svc |-> s, svc |-> add_layer(r.svc, layer)]

\* The body of plan(layer).  add_ok: whether add_layer returns.  sel_svc: the
\* run state _restart_service found; raised: the exception that reaches the
\* caller of plan.  _restart_service is called without an argument: restart
\* is its default, False.
plan(layer, s, add_ok, ok) ==
    IF ~add_ok
    THEN [issued |-> <<AddLayerCall>>, failed |-> AddLayerCall,
          sup_error |-> PebbleError, raised |-> PebbleError,
          sel_svc |-> s, svc |-> s]
    ELSE LET r == _restart_service(FALSE, add_layer(s, layer), ok)
         IN  [issued |-> <<AddLayerCall>> \o r.issued,
              failed |-> r.failed,
              sup_error |-> r.sup_error,
              raised |-> IF r.sup_error # NoError THEN PebbleServiceError ELSE NoError,
              sel_svc |-> add_layer(s, layer),
              svc |-> r.svc]

\* A call plan(layer) or plan(layer, restart=True): the signature of plan has
\* no restart parameter, so the second is refused before the body runs.
plan_call(layer, restart, s, add_ok, ok) ==
    IF restart
    THEN [issued |-> <<>>, failed |-> "", sup_error |-> NoError,
          raised |-> TypeError, sel_svc |-> s, svc |-> s]
    ELSE plan(layer, s, add_ok, ok)

(***************************************************************************)
(* PebbleService: render_pebble_layer                                      *)
(***************************************************************************)
WORKLOAD_SERVICE == "WORKLOAD_SERVICE"
HTTP_CHECK == "http-check"
GRPC_CHECK == "grpc-check"
HTTP_TLS == "OPENFGA_HTTP_TLS_ENABLED"
GRPC_TLS == "OPENFGA_GRPC_TLS_ENABLED"
PLAYGROUND == "OPENFGA_PLAYGROUND_ENABLED"

\* Keys and values of the maps that to_env_vars() of a source returns.
SourceKeys == {HTTP_TLS, GRPC_TLS}
SourceValues == {"true", "True"}
EnvMaps == UNION {[D -> SourceValues] : D \in SUBSET SourceKeys}
SourceLists == UNION {[1..n -> EnvMaps] : n \in 0..MaxSources}

\* The default environment is defined outside services.py: it holds a key no
\* source sets, with or without the two TLS flags switched off.
DefaultEnvs ==
    {[k \in {PLAYGROUND} |-> "false"],
     [k \in {PLAYGROUND, HTTP_TLS, GRPC_TLS} |-> "false"]}

\* The two forms of each check, as PEBBLE_LAYER_DICT and render write them.
HttpUrl == "http://127.0.0.1:{OPENFGA_SERVER_HTTP_PORT}/healthz"
HttpsUrl == "https://127.0.0.1:{OPENFGA_SERVER_HTTP_PORT}/healthz"
GrpcCommand == "grpc_health_probe -addr 127.0.0.1:{OPENFGA_SERVER_GRPC_PORT}"
GrpcTlsCommand ==
    "grpc_health_probe -addr 127.0.0.1:{OPENFGA_SERVER_GRPC_PORT} -tls -tls-ca-cert {CA_BUNDLE_FILE}"

\* PEBBLE_LAYER_DICT at import: the service has no "environment" entry yet
\* (an empty one here), both checks are in plain form.
EmptyEnv == [k \in {} |-> ""]
PEBBLE_LAYER_DICT_initial ==
    [summary |-> "pebble layer",
     description |-> "pebble layer for openfga",
     services |->
        [name \in {WORKLOAD_SERVICE} |->
            [override |-> "merge",
             summary |-> "entrypoint of the openfga image",
             command |-> "openfga run",
             startup |-> "disabled",
             environment |-> EmptyEnv]],
     checks |->
        [name \in {HTTP_CHECK, GRPC_CHECK} |->
            IF name = HTTP_CHECK
            THEN [override |-> "replace",
                  period |-> "1m",
                  http |-> [url |-> HttpUrl]]
            ELSE [override |-> "replace",
                  period |-> "1m",
                  level |-> "alive",
                  exec |-> [command |-> GrpcCommand]]]]

\* Layer(raw): the Layer object holds the entries of the dictionary it is
\* built from, as they are when it is built.
Layer(raw) ==
    [summary |-> raw.summary, description |-> raw.description,
     services |-> raw.services, checks |-> raw.checks]

\* The entries of a layer, or of the layer dictionary, that render writes.
environment_of(layer) == layer.services[WORKLOAD_SERVICE].environment
http_url_of(layer) == layer.checks[HTTP_CHECK].http.url
grpc_command_of(layer) == layer.checks[GRPC_CHECK].exec.command

\* ChainMap.__getitem__: the maps are searched in order, the first that holds
\* the key answers (only used for keys some map holds).
RECURSIVE ChainMap_getitem(_, _)
ChainMap_getitem(maps, key) ==
    IF key \in DOMAIN Head(maps)
    THEN Head(maps)[key]
    ELSE ChainMap_getitem(Tail(maps), key)

\* A ChainMap lookup that searches the maps from the last to the first.
RECURSIVE ChainMap_getitem_last(_, _)
ChainMap_getitem_last(maps, key) ==
    IF key \in DOMAIN maps[Len(maps)]
    THEN maps[Len(maps)][key]
    ELSE ChainMap_getitem_last(SubSeq(maps, 1, Len(maps) - 1), key)

\* ChainMap that lets the last map win, as repeated dict.update would.
ChainMap_last_wins(maps) ==
    [key \in UNION {DOMAIN maps[i] : i \in DOMAIN maps} |->
        ChainMap_getitem_last(maps, key)]

\* ChainMap(*maps) as a mapping: its keys are the keys of all the maps.
ChainMap(maps) ==
    [key \in UNION {DOMAIN maps[i] : i \in DOMAIN maps} |->
        ChainMap_getitem(maps, key)]

\* {**b, **a}: the unpacking in the other order, a's entries replace b's.
dict_unpack_swapped(a, b) ==
    [key \in DOMAIN a \cup DOMAIN b |-> IF key \in DOMAIN a THEN a[key] ELSE b[key]]

\* {**a, **b}: b's entries replace a's.
dict_unpack(a, b) ==
    [key \in DOMAIN a \cup DOMAIN b |-> IF key \in DOMAIN b THEN b[key] ELSE a[key]]

\* dict.get(key): <<>> is None.
dict_get(d, key) == IF key \in DOMAIN d THEN <<d[key]>> ELSE <<>>

\* The grpc-check rewrite done whenever either flag is "true".
grpc_check_command_any_flag(env, current) ==
    IF dict_get(env, GRPC_TLS) = <<"true">> \/ dict_get(env, HTTP_TLS) = <<"true">>
    THEN GrpcTlsCommand
    ELSE current

\* The http-check rewrite done by replacing "http" in the URL the dictionary
\* holds: a URL rewritten before is rewritten again.
http_check_url_replaces_scheme(env, current) ==
    IF dict_get(env, HTTP_TLS) = <<"true">>
    THEN IF current = HttpUrl
         THEN HttpsUrl
         ELSE "httpss://127.0.0.1:{OPENFGA_SERVER_HTTP_PORT}/healthz"
    ELSE current

\* The http-check URL chosen afresh on every call from the flag.
http_check_url_rebuilt(env, current) ==
    IF dict_get(env, HTTP_TLS) = <<"true">> THEN HttpsUrl ELSE HttpUrl

\* The http-check URL after render: rewritten, or as the dictionary held it.
http_check_url(env, current) ==
    IF dict_get(env, HTTP_TLS) = <<"true">> THEN HttpsUrl ELSE current

\* The grpc-check command after render.
grpc_check_command(env, current) ==
    IF dict_get(env, GRPC_TLS) = <<"true">> THEN GrpcTlsCommand ELSE current

\* render_pebble_layer that assigns the service entry anew, with the
\* environment alone.
render_pebble_layer_replaces_service(sources, layer_dict, defaults) ==
    LET env_vars == dict_unpack(defaults, ChainMap(sources))
        after ==
            [layer_dict EXCEPT
                !.services[WORKLOAD_SERVICE] = [environment |-> env_vars],
                !.checks[HTTP_CHECK].http.url = http_check_url(env_vars, @),
                !.checks[GRPC_CHECK].exec.command = grpc_check_command(env_vars, @)]
    IN  [layer_dict |-> after, ret |-> Layer(after)]

\* render_pebble_layer that updates the environment the dictionary holds
\* instead of assigning it.
render_pebble_layer_updates_environment(sources, layer_dict, defaults) ==
    LET env_vars == dict_unpack(defaults, ChainMap(sources))
        after ==
            [layer_dict EXCEPT
                !.services[WORKLOAD_SERVICE].environment = dict_unpack(@, env_vars),
                !.checks[HTTP_CHECK].http.url = http_check_url(env_vars, @),
                !.checks[GRPC_CHECK].exec.command = grpc_check_command(env_vars, @)]
    IN  [layer_dict |-> after, ret |-> Layer(after)]

\* render_pebble_layer(*env_var_sources).  sources: what to_env_vars() of each
\* source returned, in argument order; layer_dict: self._layer_dict at entry.
\* layer_dict: the dictionary at return; ret: the Layer built from it.
render_pebble_layer(sources, layer_dict, defaults) ==
    LET env_vars == dict_unpack(defaults, ChainMap(sources))
        after ==
            [layer_dict EXCEPT
                !.services[WORKLOAD_SERVICE].environment = env_vars,
                !.checks[HTTP_CHECK].http.url = http_check_url(env_vars, @),
                !.checks[GRPC_CHECK].exec.command = grpc_check_command(env_vars, @)]
    IN  [layer_dict |-> after, ret |-> Layer(after)]

\* The PebbleService objects of the charm.  __init__ binds self._layer_dict
\* of each to the module-level PEBBLE_LAYER_DICT itself, not to a copy.
Instances == {"a", "b"}
_layer_dict(self, module_dict) == module_dict

\* The source lists of a recorded sequence of calls: no source or one.
CallSources == {<<>>} \cup {<<m>> : m \in EnvMaps}

\* The sources a thread passes: none, or one source that switches flags on.
ThreadSources ==
    {sources \in CallSources :
        \A i \in DOMAIN sources : \A key \in DOMAIN sources[i] : sources[i][key] = "true"}

\* The threads that call render_pebble_layer, and a thread outside a call.
Threads == {"t1", "t2"}
IdleThread == [pc |-> "idle"]

(***************************************************************************)
(* Actions                                                                 *)
(***************************************************************************)
Init ==
    /\ svc = "absent"
    /\ _version = ""
    /\ ledger = ""
    /\ PEBBLE_LAYER_DICT = PEBBLE_LAYER_DICT_initial
    /\ DEFAULT_CONTAINER_ENV \in DefaultEnvs
    /\ call = [op |-> "init"]
    /\ history = <<>>
    /\ threads = [t \in Threads |-> IdleThread]

Plan ==
    \E layer \in Layers, restart \in BOOLEAN, add_ok \in BOOLEAN, ok \in BOOLEAN :
        LET r == plan_call(layer, restart, svc, add_ok, ok)
        IN  /\ svc' = r.svc
            /\ call' = [op |-> "plan", layer |-> layer, restart |-> restart,
                        pre_svc |-> svc, sel_svc |-> r.sel_svc,
                        issued |-> r.issued, failed |-> r.failed,
                        sup_error |-> r.sup_error,
                        raised |-> r.raised]
            /\ UNCHANGED <<_version, ledger, PEBBLE_LAYER_DICT, DEFAULT_CONTAINER_ENV,
                         history, threads>>

GetVersion ==
    \E answer \in HelperAnswers :
        LET r == version_getter(answer)
        IN  /\ _version' = r._version
            /\ call' = [op |-> "version", answer |-> answer, ret |-> r.ret,
                        pre_version |-> _version]
            /\ UNCHANGED <<svc, ledger, PEBBLE_LAYER_DICT, DEFAULT_CONTAINER_ENV,
                         history, threads>>

SetVersion ==
    \E version \in Versions \cup {""}, publish_ok \in BOOLEAN :
        LET r == version_setter(version, _version, ledger, publish_ok)
        IN  /\ _version' = r._version
            /\ ledger' = r.ledger
            /\ call' = [op |-> "set_version", version |-> version,
                        ledger_log |-> r.ledger_log, raised |-> r.raised,
                        pre_version |-> _version, pre_ledger |-> ledger]
            /\ UNCHANGED <<svc, PEBBLE_LAYER_DICT, DEFAULT_CONTAINER_ENV,
                         history, threads>>

IsRunning ==
    LET r == is_running(svc)
    IN  /\ svc' = r.svc
        /\ call' = [op |-> "is_running", ret |-> r.ret, raised |-> r.raised,
                    issued |-> r.issued, pre_svc |-> svc]
        /\ UNCHANGED <<_version, ledger, PEBBLE_LAYER_DICT, DEFAULT_CONTAINER_ENV,
                     history, threads>>

\* The workload process exits on its own: the supervisor reports it stopped.
ServiceExits ==
    /\ svc = "running"
    /\ svc' = "stopped"
    /\ call' = [op |-> "exit"]
    /\ UNCHANGED <<_version, ledger, PEBBLE_LAYER_DICT, DEFAULT_CONTAINER_ENV,
                 history, threads>>

Render ==
    \E sources \in SourceLists :
        LET r == render_pebble_layer(sources, PEBBLE_LAYER_DICT, DEFAULT_CONTAINER_ENV)
        IN  /\ PEBBLE_LAYER_DICT' = r.layer_dict
            /\ call' = [op |-> "render", sources |-> sources, ret |-> r.ret,
                        pre |-> [http_url |-> http_url_of(PEBBLE_LAYER_DICT),
                                 grpc_command |-> grpc_command_of(PEBBLE_LAYER_DICT)]]
            /\ UNCHANGED <<svc, _version, ledger, DEFAULT_CONTAINER_ENV,
                         history, threads>>

\* A render call of one of the instances, recorded in the sequence of calls.
RenderCall ==
    /\ Len(history) < MaxCalls
    /\ \E self \in Instances, sources \in CallSources :
           LET r == render_pebble_layer(sources,
                                        _layer_dict(self, PEBBLE_LAYER_DICT),
                                        DEFAULT_CONTAINER_ENV)
           IN  /\ PEBBLE_LAYER_DICT' = r.layer_dict
               /\ call' = [op |-> "render", sources |-> sources, ret |-> r.ret,
                           pre |-> [http_url |-> http_url_of(PEBBLE_LAYER_DICT),
                                    grpc_command |-> grpc_command_of(PEBBLE_LAYER_DICT)]]
               /\ history' = Append(history,
                                    [self |-> self, sources |-> sources, ret |-> r.ret])
               /\ UNCHANGED <<svc, _version, ledger, DEFAULT_CONTAINER_ENV, threads>>

\* render_pebble_layer run by threads that nothing serialises.  A call is a
\* sequence of steps, one per statement that reads or writes the shared
\* dictionary; env_vars is local to the call.  overlapped records that another
\* call was in progress at some step between this call's entry and its return.
Other(t) == CHOOSE u \in Threads : u # t

InCall(t) == threads[t].pc # "idle"

\* Lines 121-125: the call is entered and env_vars is built from its sources.
ThreadBegin ==
    \E t \in Threads, sources \in ThreadSources :
        /\ ~InCall(t)
        /\ threads' = [u \in Threads |->
               IF u = t
               THEN [pc |-> "environment", sources |-> sources,
                     env_vars |-> dict_unpack(DEFAULT_CONTAINER_ENV, ChainMap(sources)),
                     overlapped |-> InCall(Other(t))]
               ELSE IF InCall(u) THEN [threads[u] EXCEPT !.overlapped = TRUE]
               ELSE threads[u]]
        /\ UNCHANGED <<svc, _version, ledger, PEBBLE_LAYER_DICT,
                     DEFAULT_CONTAINER_ENV, call, history>>

\* Line 126: the environment of the service is assigned.
ThreadWriteEnvironment ==
    \E t \in Threads :
        /\ threads[t].pc = "environment"
        /\ PEBBLE_LAYER_DICT' =
               [PEBBLE_LAYER_DICT EXCEPT
                   !.services[WORKLOAD_SERVICE].environment = threads[t].env_vars]
        /\ threads' = [threads EXCEPT ![t].pc = "http"]
        /\ UNCHANGED <<svc, _version, ledger, DEFAULT_CONTAINER_ENV, call, history>>

\* Lines 128-131: the http-check rewrite, decided on the call's own env_vars.
ThreadRewriteHttp ==
    \E t \in Threads :
        /\ threads[t].pc = "http"
        /\ PEBBLE_LAYER_DICT' =
               [PEBBLE_LAYER_DICT EXCEPT
                   !.checks[HTTP_CHECK].http.url = http_check_url(threads[t].env_vars, @)]
        /\ threads' = [threads EXCEPT ![t].pc = "grpc"]
        /\ UNCHANGED <<svc, _version, ledger, DEFAULT_CONTAINER_ENV, call, history>>

\* Lines 133-136: the grpc-check rewrite, decided on the call's own env_vars.
ThreadRewriteGrpc ==
    \E t \in Threads :
        /\ threads[t].pc = "grpc"
        /\ PEBBLE_LAYER_DICT' =
               [PEBBLE_LAYER_DICT EXCEPT
                   !.checks[GRPC_CHECK].exec.command =
                       grpc_check_command(threads[t].env_vars, @)]
        /\ threads' = [threads EXCEPT ![t].pc = "return"]
        /\ UNCHANGED <<svc, _version, ledger, DEFAULT_CONTAINER_ENV, call, history>>

\* Line 138: the Layer is built from the dictionary as it is now.
ThreadReturn ==
    \E t \in Threads :
        /\ threads[t].pc = "return"
        /\ call' = [op |-> "render_thread", thread |-> t,
                    sources |-> threads[t].sources,
                    overlapped |-> threads[t].overlapped,
                    ret |-> Layer(PEBBLE_LAYER_DICT)]
        /\ threads' = [threads EXCEPT ![t] = IdleThread]
        /\ UNCHANGED <<svc, _version, ledger, PEBBLE_LAYER_DICT,
                     DEFAULT_CONTAINER_ENV, history>>

Next == Plan \/ GetVersion \/ SetVersion \/ IsRunning \/ ServiceExits

\* The status reporter and plan: calls on the supervisor, the ledger and the helper.
Spec == Init /\ [][Next]_vars

\* The renderer: calls of render_pebble_layer on the shared layer dictionary.
NextRender == Render

SpecRender == Init /\ [][NextRender]_vars

\* Sequences of render calls on the instances of the charm.
NextCalls == RenderCall

SpecCalls == Init /\ [][NextCalls]_vars

\* Render calls made by threads, with and without overlap.
NextThreads ==
    \/ ThreadBegin
    \/ ThreadWriteEnvironment
    \/ ThreadRewriteHttp
    \/ ThreadRewriteGrpc
    \/ ThreadReturn

SpecThreads == Init /\ [][NextThreads]_vars

(***************************************************************************)
(* Properties of plan                                                      *)
(***************************************************************************)
\* The start, restart and replan calls of a sequence of container calls.
TransitionsIn(issued) == SelectSeq(issued, LAMBDA c : c \in Transitions)

\* add_layer was called and returned.
LayerSubmitted ==
    AddLayerCall \in Range(call.issued) /\ call.failed # AddLayerCall

\* C1: whenever plan is called with restart=true, restart is issued for the
\* workload service, whatever its run state, and neither start nor replan is.
C1_ForcedRestartIssued ==
    (call.op = "plan" /\ call.restart)
        => TransitionsIn(call.issued) = <<RestartCall>>

\* C2, as stated: every plan call with restart=false whose layer submission
\* succeeds issues exactly one transition, start on a service that is not
\* running and replan on a running one.
C2_ExactlyOneTransition ==
    (call.op = "plan" /\ ~call.restart /\ LayerSubmitted)
        => /\ Len(TransitionsIn(call.issued)) = 1
           /\ call.sel_svc = "running" => TransitionsIn(call.issued) = <<ReplanCall>>
           /\ call.sel_svc # "running" => TransitionsIn(call.issued) = <<StartCall>>

\* C2, amended: every plan call with restart=false whose layer submission
\* succeeds and that finds the workload service known to the supervisor issues
\* exactly one transition: start when the service is not running, replan when
\* it is running.
C2_OneTransitionWhenServiceKnown ==
    (call.op = "plan" /\ ~call.restart /\ LayerSubmitted /\ call.sel_svc # "absent")
        => /\ Len(TransitionsIn(call.issued)) = 1
           /\ call.sel_svc = "running" => TransitionsIn(call.issued) = <<ReplanCall>>
           /\ call.sel_svc = "stopped" => TransitionsIn(call.issued) = <<StartCall>>

\* A plan call replanned a running service.
C2_Witness ==
    /\ call.op = "plan" /\ ~call.restart /\ LayerSubmitted
    /\ call.sel_svc = "running"
    /\ TransitionsIn(call.issued) = <<ReplanCall>>

\* C3: every failure of a supervisor call during plan, in add_layer or in the
\* transition, reaches the caller as PebbleServiceError and as no other error.
C3_EveryFailureIsPebbleServiceError ==
    (call.op = "plan" /\ call.failed # "")
        => call.raised = PebbleServiceError

\* C4: when get_service finds the workload service absent while plan selects
\* the transition, plan ends in PebbleServiceError and issues none of start,
\* restart and replan.
C4_AbsentServiceIsPebbleServiceError ==
    (call.op = "plan" /\ GetServiceCall \in Range(call.issued)
                      /\ call.sel_svc = "absent")
        => /\ call.raised = PebbleServiceError
           /\ TransitionsIn(call.issued) = <<>>

\* A plan call whose layer was accepted found the service absent.
C4_Witness ==
    /\ call.op = "plan" /\ LayerSubmitted
    /\ GetServiceCall \in Range(call.issued)
    /\ call.sel_svc = "absent"
    /\ call.sup_error = ModelError

C6_EmptyVersionIsNoOp ==
    (call.op = "set_version" /\ call.version = "")
        => /\ _version = call.pre_version
           /\ call.ledger_log = <<>>
           /\ ledger = call.pre_ledger

\* The setter was given "" while a version was recorded.
C6_Witness ==
    /\ call.op = "set_version" /\ call.version = ""
    /\ call.pre_version # ""

\* C7: a failure of set_workload_version inside the setter never reaches the
\* caller and is never retried: each setter call makes at most one
\* set_workload_version call and returns normally.
C7_LedgerFailureAbsorbed ==
    call.op = "set_version"
        => /\ call.raised = NoError
           /\ Len(call.ledger_log) <= 1

\* A setter call whose set_workload_version call raised.
C7_Witness ==
    /\ call.op = "set_version"
    /\ call.ledger_log = <<LedgerError>>

\* C8: is_running returns false and raises nothing when the supervisor does
\* not know the workload service, returns the service's run state when it
\* does, and leaves the supervisor's state as it was.
C8_IsRunningReportsRunState ==
    call.op = "is_running"
        => /\ call.raised = NoError
           /\ call.pre_svc = "absent" => call.ret = FALSE
           /\ call.pre_svc # "absent" => call.ret = (call.pre_svc = "running")
           /\ svc = call.pre_svc
           /\ TransitionsIn(call.issued) = <<>>

\* is_running was asked about a service the supervisor does not know.
C8_Witness ==
    /\ call.op = "is_running"
    /\ call.pre_svc = "absent"
    /\ call.ret = FALSE

(***************************************************************************)
(* Properties of render_pebble_layer                                       *)
(***************************************************************************)
\* The keys the sources of a list define.
KeysOf(sources) == UNION {DOMAIN sources[i] : i \in DOMAIN sources}

\* The place of the earliest source of the list that defines the key.
Earliest(sources, key) ==
    CHOOSE i \in DOMAIN sources :
        /\ key \in DOMAIN sources[i]
        /\ \A j \in 1..(i - 1) : key \notin DOMAIN sources[j]

\* C9: the environment of the Layer that render returns holds every key of
\* every source and of the default map, each with the value of the earliest
\* source that defines it, else with the default's value.
C9_EarliestSourceWins ==
    call.op = "render"
        => LET env == environment_of(call.ret)
               sources == call.sources
           IN  /\ DOMAIN env = KeysOf(sources) \cup DOMAIN DEFAULT_CONTAINER_ENV
               /\ \A key \in KeysOf(sources) :
                      env[key] = sources[Earliest(sources, key)][key]
               /\ \A key \in DOMAIN DEFAULT_CONTAINER_ENV \ KeysOf(sources) :
                      env[key] = DEFAULT_CONTAINER_ENV[key]

\* Two sources collide on a key the default map holds too, with three
\* different values, and the later source brings a key the earlier lacks.
C9_Witness ==
    /\ call.op = "render"
    /\ Len(call.sources) = 2
    /\ \E key \in DOMAIN call.sources[1] \cap DOMAIN call.sources[2]
                  \cap DOMAIN DEFAULT_CONTAINER_ENV :
           /\ call.sources[1][key] # call.sources[2][key]
           /\ call.sources[1][key] # DEFAULT_CONTAINER_ENV[key]
           /\ call.sources[2][key] # DEFAULT_CONTAINER_ENV[key]
           /\ environment_of(call.ret)[key] = call.sources[1][key]
    /\ \E key \in DOMAIN call.sources[2] \ DOMAIN call.sources[1] :
           environment_of(call.ret)[key] = call.sources[2][key]

\* A flag of the effective environment is the literal "true".
FlagOn(env, key) == key \in DOMAIN env /\ env[key] = "true"

\* C10: a render call sets the http-check URL to the https one exactly when
\* the effective OPENFGA_HTTP_TLS_ENABLED is "true", and the grpc-check
\* command to the TLS one exactly when the effective OPENFGA_GRPC_TLS_ENABLED
\* is "true"; a check whose flag is anything else, or absent, is returned as
\* it was before the call.
C10_TlsRewritesIndependent ==
    call.op = "render"
        => LET env == environment_of(call.ret)
           IN  /\ FlagOn(env, HTTP_TLS) => http_url_of(call.ret) = HttpsUrl
               /\ ~FlagOn(env, HTTP_TLS) => http_url_of(call.ret) = call.pre.http_url
               /\ FlagOn(env, GRPC_TLS) => grpc_command_of(call.ret) = GrpcTlsCommand
               /\ ~FlagOn(env, GRPC_TLS)
                      => grpc_command_of(call.ret) = call.pre.grpc_command

\* A render call rewrote the http check and left the plain grpc check alone,
\* the grpc flag being set to something other than "true".
C10_Witness ==
    /\ call.op = "render"
    /\ FlagOn(environment_of(call.ret), HTTP_TLS)
    /\ GRPC_TLS \in DOMAIN environment_of(call.ret)
    /\ ~FlagOn(environment_of(call.ret), GRPC_TLS)
    /\ call.pre.http_url = HttpUrl /\ http_url_of(call.ret) = HttpsUrl
    /\ call.pre.grpc_command = GrpcCommand /\ grpc_command_of(call.ret) = GrpcCommand

(***************************************************************************)
(* Properties of sequences of render calls                                 *)
(***************************************************************************)
Calls == DOMAIN history

\* Call i is followed at once by call i + 1.
Consecutive(i) == i \in Calls /\ i + 1 \in Calls

\* Call i comes before call j, both on the same PebbleService.
EarlierOnSameInstance(i, j) ==
    i \in Calls /\ j \in Calls /\ i < j /\ history[i].self = history[j].self

\* C11: two consecutive render calls of a PebbleService with identical
\* sources return identical Layers, whatever the dictionary held before.
C11_RenderIdempotent ==
    \A i \in Calls :
        (/\ Consecutive(i)
         /\ history[i + 1].self = history[i].self
         /\ history[i + 1].sources = history[i].sources)
            => history[i + 1].ret = history[i].ret

\* A call that rewrote a check and changed the environment was repeated.
C11_Witness ==
    /\ Len(history) = 3
    /\ history[2].self = history[3].self
    /\ history[2].sources = history[3].sources
    /\ environment_of(history[1].ret) # environment_of(history[2].ret)
    /\ http_url_of(history[1].ret) # http_url_of(history[2].ret)
    /\ history[3].ret = history[2].ret

\* C12: once a render call has seen a TLS flag equal to "true", every later
\* render call of that PebbleService returns the rewritten check: the https
\* URL for OPENFGA_HTTP_TLS_ENABLED, the TLS command for
\* OPENFGA_GRPC_TLS_ENABLED.
C12_TlsRewriteNeverReverted ==
    \A i \in Calls : \A j \in Calls :
        EarlierOnSameInstance(i, j)
            => /\ FlagOn(environment_of(history[i].ret), HTTP_TLS)
                      => http_url_of(history[j].ret) = HttpsUrl
               /\ FlagOn(environment_of(history[i].ret), GRPC_TLS)
                      => grpc_command_of(history[j].ret) = GrpcTlsCommand

\* A call whose flags are both not "true" follows one that saw both "true".
C12_Witness ==
    \E i \in Calls : \E j \in Calls :
        /\ EarlierOnSameInstance(i, j)
        /\ FlagOn(environment_of(history[i].ret), HTTP_TLS)
        /\ FlagOn(environment_of(history[i].ret), GRPC_TLS)
        /\ ~FlagOn(environment_of(history[j].ret), HTTP_TLS)
        /\ ~FlagOn(environment_of(history[j].ret), GRPC_TLS)
        /\ http_url_of(history[j].ret) = HttpsUrl
        /\ grpc_command_of(history[j].ret) = GrpcTlsCommand

\* A layer with the three entries that render writes put back as
\* PEBBLE_LAYER_DICT holds them at import.
WithoutRendered(layer) ==
    [layer EXCEPT !.services[WORKLOAD_SERVICE].environment = EmptyEnv,
                  !.checks[HTTP_CHECK].http.url = HttpUrl,
                  !.checks[GRPC_CHECK].exec.command = GrpcCommand]

\* C13: after any sequence of render calls the returned Layer differs from
\* the dictionary at import in the service environment, the http-check URL
\* and the grpc-check command at most: it holds the workload service alone,
\* with command "openfga run" and startup disabled, and the checks http-check
\* and grpc-check alone, each with period 1m.
C13_LayerShapeFixed ==
    \A i \in Calls :
        LET layer == history[i].ret
        IN  /\ WithoutRendered(layer) = Layer(PEBBLE_LAYER_DICT_initial)
            /\ DOMAIN layer.services = {WORKLOAD_SERVICE}
            /\ layer.services[WORKLOAD_SERVICE].command = "openfga run"
            /\ layer.services[WORKLOAD_SERVICE].startup = "disabled"
            /\ DOMAIN layer.checks = {HTTP_CHECK, GRPC_CHECK}
            /\ \A name \in DOMAIN layer.checks : layer.checks[name].period = "1m"

\* A third call returned a Layer with all three entries rewritten.
C13_Witness ==
    /\ Len(history) = 3
    /\ environment_of(history[3].ret) # EmptyEnv
    /\ http_url_of(history[3].ret) = HttpsUrl
    /\ grpc_command_of(history[3].ret) = GrpcTlsCommand

\* C14: the environment of the Layer a render call returns holds the keys of
\* that call's sources and of the default map and no other, each source key
\* with that call's value; what earlier calls were given leaves no trace.
C14_EnvironmentFromThisCallAlone ==
    \A j \in Calls :
        LET env == environment_of(history[j].ret)
            sources == history[j].sources
        IN  /\ DOMAIN env = KeysOf(sources) \cup DOMAIN DEFAULT_CONTAINER_ENV
            /\ \A key \in DOMAIN env :
                   env[key] = IF key \in KeysOf(sources)
                              THEN sources[Earliest(sources, key)][key]
                              ELSE DEFAULT_CONTAINER_ENV[key]
            /\ \A i \in Calls : \A key \in DOMAIN environment_of(history[i].ret) :
                   (i < j /\ key \notin KeysOf(sources)
                          /\ key \notin DOMAIN DEFAULT_CONTAINER_ENV)
                       => key \notin DOMAIN env

\* The call before, on the same PebbleService, was given a key that this call
\* is not given and that has no default, and another value for a shared key.
C14_Witness ==
    \E j \in Calls :
        /\ EarlierOnSameInstance(j - 1, j)
        /\ \E key \in DOMAIN environment_of(history[j - 1].ret) :
               key \notin DOMAIN environment_of(history[j].ret)
        /\ \E key \in KeysOf(history[j - 1].sources) \cap KeysOf(history[j].sources) :
               /\ history[j - 1].sources[1][key] # history[j].sources[1][key]
               /\ environment_of(history[j].ret)[key] = history[j].sources[1][key]

\* The layer dictionary of a PebbleService after those of the first n calls
\* that were made on it, had no other PebbleService touched it.
RECURSIVE OwnLayerDict(_, _)
OwnLayerDict(self, n) ==
    IF n = 0
    THEN PEBBLE_LAYER_DICT_initial
    ELSE IF history[n].self = self
    THEN render_pebble_layer(history[n].sources, OwnLayerDict(self, n - 1),
                             DEFAULT_CONTAINER_ENV).layer_dict
    ELSE OwnLayerDict(self, n - 1)

\* C18: what a render call returns is what it would return had the calls on
\* the other PebbleService objects not been made.
C18_InstancesIsolated ==
    \A j \in Calls : history[j].ret = Layer(OwnLayerDict(history[j].self, j))

(***************************************************************************)
(* Further properties of WorkloadService and plan                          *)
(***************************************************************************)
\* C15: a read of version returns the helper's string at that read, or ""
\* when the helper returns None, whatever was read or assigned before; after
\* the read self._version is the value returned.
C15_VersionReadIsHelperAnswer ==
    call.op = "version"
        => /\ call.answer = <<>> => call.ret = ""
           /\ call.answer # <<>> => call.ret = call.answer[1]
           /\ _version = call.ret

\* The helper returned None while a version was recorded: the read gave "".
C15_Witness ==
    /\ call.op = "version"
    /\ call.answer = <<>>
    /\ call.pre_version # ""
    /\ call.ret = "" /\ _version = ""

\* How often a container call occurs in a sequence of container calls.
Count(issued, c) == Cardinality({i \in DOMAIN issued : issued[i] = c})

\* C16: every plan call that the signature of plan accepts submits the layer
\* exactly once, as add_layer(WORKLOAD_SERVICE, layer, combine=True), before
\* any other container call; when the submission fails, no start, restart or
\* replan follows.
C16_LayerSubmittedOnceAndFirst ==
    (call.op = "plan" /\ call.raised # TypeError)
        => /\ Count(call.issued, AddLayerCall) = 1
           /\ call.issued[1] = AddLayerCall
           /\ call.failed = AddLayerCall => TransitionsIn(call.issued) = <<>>

\* A plan call submitted the layer and then started the service.
C16_Witness ==
    /\ call.op = "plan" /\ call.raised # TypeError
    /\ call.issued = <<AddLayerCall, GetServiceCall, StartCall>>

(***************************************************************************)
(* Render calls from several threads                                       *)
(***************************************************************************)
\* The environment the sources of a call define over the default map.
OwnEnvironment(sources) ==
    [key \in KeysOf(sources) \cup DOMAIN DEFAULT_CONTAINER_ENV |->
        IF key \in KeysOf(sources)
        THEN sources[Earliest(sources, key)][key]
        ELSE DEFAULT_CONTAINER_ENV[key]]

\* C17: a render call that no other call overlapped returns a Layer whose
\* environment is the one its own sources define over the default map.
C17_SerialisedCallsCarryOwnEnvironment ==
    (call.op = "render_thread" /\ ~call.overlapped)
        => environment_of(call.ret) = OwnEnvironment(call.sources)

\* A call that followed another call, with other sources, and overlapped none.
C17_SerialisedAfterAnother ==
    /\ call.op = "render_thread"
    /\ ~call.overlapped
    /\ environment_of(PEBBLE_LAYER_DICT_initial) # environment_of(call.ret)
    /\ \E u \in Threads :
           /\ u # call.thread
           /\ InCall(u)
           /\ ~threads[u].overlapped
           /\ threads[u].pc = "return"
           /\ threads[u].env_vars # environment_of(call.ret)

\* The race: a call that overlapped another returned the environment the
\* other call wrote, which is not the one of its own sources.
C17_RaceReached ==
    /\ call.op = "render_thread"
    /\ call.overlapped
    /\ environment_of(call.ret) # OwnEnvironment(call.sources)
    /\ \E u \in Threads :
           /\ u # call.thread
           /\ InCall(u)
           /\ threads[u].pc \in {"http", "grpc", "return"}
           /\ threads[u].env_vars = environment_of(call.ret)

====
